---- MODULE Spec2Model ----
(***************************************************************************)
(* The LSST DRP computational budget notebooks (lsst-dm/kpm): the six-month *)
(* (DR1) notebook and the one-year notebook.  Each notebook is a kernel     *)
(* that executes its code cells in order; a cell binds names in the         *)
(* kernel's namespace and may display a value.                              *)
(*                                                                         *)
(* Magnitudes are Python floats, modelled as IEEE-754 binary64 values with  *)
(* round-to-nearest-even (no overflow, underflow or NaN arises for the      *)
(* magnitudes of the notebooks).  The Python ints of the notebooks stay     *)
(* below 2^53, where int and float arithmetic agree.  Quantities carry an   *)
(* astropy-style unit: integer powers of named units.                       *)
(***************************************************************************)
EXTENDS Integers, Sequences, FiniteSets, TLC

(* Unbounded naturals: little-endian sequences of limbs below Base, no leading zero limb.
   Carries are looked ahead, not rippled, so that no operation recurses over the limbs. *)
LimbBits == 10 + 5
Base == 2^LimbBits

Largest(S) == CHOOSE x \in S : \A y \in S : y <= x
Limb(a, i) == IF i >= 1 /\ i <= Len(a) THEN a[i] ELSE 0
\* the limbs f[1..n] as a sequence
Limbs(f) == f \o <<>>
BNorm(a) == SubSeq(a, 1, Largest({0} \cup {i \in 1..Len(a) : a[i] # 0}))

BFromNat(n) == BNorm(<<n % Base, (n \div Base) % Base, n \div (Base * Base)>>)

\* a carry enters limb i when a limb below generates one and every limb between passes it
BCarry(a, b, i) ==
    \E j \in 1..(i - 1) :
        /\ Limb(a, j) + Limb(b, j) >= Base
        /\ \A k \in (j + 1)..(i - 1) : Limb(a, k) + Limb(b, k) = Base - 1
BAddN(a, b, n) ==
    BNorm(Limbs([i \in 1..n |->
                    (Limb(a, i) + Limb(b, i) + (IF BCarry(a, b, i) THEN 1 ELSE 0)) % Base]))
BAdd(a, b) ==
    IF a = <<>> THEN b
    ELSE IF b = <<>> THEN a
    ELSE BAddN(a, b, 1 + (IF Len(a) > Len(b) THEN Len(a) ELSE Len(b)))

BBorrow(a, b, i) ==
    \E j \in 1..(i - 1) :
        /\ a[j] < Limb(b, j)
        /\ \A k \in (j + 1)..(i - 1) : a[k] = Limb(b, k)
\* a - b for a >= b
BSub(a, b) ==
    IF a = <<>> \/ b = <<>> THEN a
    ELSE
    BNorm(Limbs([i \in 1..Len(a) |->
                    (a[i] - Limb(b, i) - (IF BBorrow(a, b, i) THEN 1 ELSE 0)) % Base]))

BCmpAt(a, b, i) == IF i = 0 THEN 0 ELSE IF a[i] < b[i] THEN -1 ELSE 1
\* -1, 0, 1 as a < b, a = b, a > b
BCmp(a, b) ==
    IF Len(a) < Len(b) THEN -1
    ELSE IF Len(a) > Len(b) THEN 1
    ELSE BCmpAt(a, b, Largest({0} \cup {i \in 1..Len(a) : a[i] # b[i]}))

\* a * k for 0 <= k < Base
BMulSmall(a, k) ==
    IF k = 0 \/ a = <<>> THEN <<>>
    ELSE BAdd(Limbs([i \in 1..Len(a) |-> (a[i] * k) % Base]),
              <<0>> \o [i \in 1..Len(a) |-> (a[i] * k) \div Base])

\* the low (part = 0) or high (part = 1) halves of the limb products a[i] * b[k + 1 - i],
\* lo <= i <= hi, summed
RECURSIVE BColumn(_, _, _, _, _, _)
BColumn(a, b, k, lo, hi, part) ==
    IF lo > hi THEN 0
    ELSE IF lo = hi
    THEN (IF part = 0 THEN (a[lo] * b[k + 1 - lo]) % Base ELSE (a[lo] * b[k + 1 - lo]) \div Base)
    ELSE BColumn(a, b, k, lo, (lo + hi) \div 2, part)
         + BColumn(a, b, k, (lo + hi) \div 2 + 1, hi, part)
\* what limb k of a * b receives before carries: low halves of column k, high halves of k - 1
BColumns(a, b, k) ==
    BColumn(a, b, k, IF k > Len(b) THEN k + 1 - Len(b) ELSE 1,
            IF k < Len(a) THEN k ELSE Len(a), 0)
    + BColumn(a, b, k - 1, IF k - 1 > Len(b) THEN k - Len(b) ELSE 1,
              IF k - 1 < Len(a) THEN k - 1 ELSE Len(a), 1)
BMulT(t) ==
    BAdd(Limbs([k \in 1..Len(t) |-> t[k] % Base]), <<0>> \o [k \in 1..Len(t) |-> t[k] \div Base])
BMul(a, b) ==
    IF a = <<>> \/ b = <<>> THEN <<>>
    ELSE BMulT(Limbs([k \in 1..(Len(a) + Len(b)) |-> BColumns(a, b, k)]))

SmallBitLen(n) == CHOOSE k \in 0..LimbBits : n < 2^k /\ (k = 0 \/ n >= 2^(k - 1))
BBitLen(a) == IF a = <<>> THEN 0 ELSE (Len(a) - 1) * LimbBits + SmallBitLen(a[Len(a)])

Zeros(n) == [i \in 1..n |-> 0]
\* a * 2^r for r < LimbBits: each limb takes the low bits of its own and the high bits of
\* the limb below
BShlSmall(a, r) ==
    BNorm(Limbs([i \in 1..(Len(a) + 1) |->
                    (Limb(a, i) % 2^(LimbBits - r)) * 2^r + Limb(a, i - 1) \div 2^(LimbBits - r)]))
\* a * 2^k
BShl(a, k) ==
    IF a = <<>> THEN <<>>
    ELSE Zeros(k \div LimbBits) \o BShlSmall(a, k % LimbBits)
\* floor(a / 2^r) for r < LimbBits
BShrSmall(a, r) ==
    BNorm(Limbs([i \in 1..Len(a) |->
                    a[i] \div 2^r + (Limb(a, i + 1) % 2^r) * 2^(LimbBits - r)]))
\* floor(a / 2^k)
BShr(a, k) ==
    IF k \div LimbBits >= Len(a) THEN <<>>
    ELSE BShrSmall(SubSeq(a, k \div LimbBits + 1, Len(a)), k % LimbBits)
BOdd(a) == a # <<>> /\ a[1] % 2 = 1

RECURSIVE BPow10(_)
BPow10(k) ==
    IF k = 0 THEN <<1>>
    ELSE IF k = 1 THEN <<10>>
    ELSE BMul(BPow10(k \div 2), BPow10(k - k \div 2))

(* IEEE-754 binary64 values: (-1)^s * m * 2^e with m = 0 or 2^52 <= m < 2^53. *)
MantBits == 52 + 1
FZero == [s |-> 0, m |-> <<>>, e |-> 0]

\* q * 2^e for q <= 2^53: q = 2^53 is renormalised
FPack(s, q, e) ==
    IF BBitLen(q) > MantBits THEN [s |-> s, m |-> BShr(q, 1), e |-> e + 1]
    ELSE [s |-> s, m |-> q, e |-> e]
\* q * 2^e moved up by one unit in the last place when the discarded part c (-1, 0, 1 as it
\* is below, at, above one half) says so: to nearest, ties to even
FRoundC(s, q, e, c) == FPack(s, IF c > 0 \/ (c = 0 /\ BOdd(q)) THEN BAdd(q, <<1>>) ELSE q, e)
FRoundQ(s, m, e, k, q) == FRoundC(s, q, e, BCmp(BSub(m, BShl(q, k)), BShl(<<1>>, k - 1)))
FRoundK(s, m, e, k) ==
    IF k <= 0 THEN [s |-> s, m |-> BShl(m, -k), e |-> e + k]
    ELSE FRoundQ(s, m, e + k, k, BShr(m, k))
\* m * 2^e rounded to nearest, ties to even
FRound(s, m, e) == IF m = <<>> THEN FZero ELSE FRoundK(s, m, e, BBitLen(m) - MantBits)

\* quotient bit i of restoring division: st is the quotient so far and what is left of n
BDivTry(st, t, i) ==
    IF BCmp(st.r, t) >= 0 THEN [q |-> BAdd(st.q, BShl(<<1>>, i)), r |-> BSub(st.r, t)] ELSE st
\* quotient bits hi down to lo, the upper half of them first
RECURSIVE BDivFrom(_, _, _, _)
BDivFrom(st, d, hi, lo) ==
    IF st.r = <<>> \/ hi < lo THEN st
    ELSE IF hi = lo THEN BDivTry(st, BShl(d, hi), hi)
    ELSE BDivFrom(BDivFrom(st, d, hi, (hi + lo + 1) \div 2), d, (hi + lo + 1) \div 2 - 1, lo)
\* floor(n / d) and the remainder, for n < d * 2^(i+1)
BDivMod(n, d, i) == BDivFrom([q |-> <<>>, r |-> n], d, i, 0)

\* the quotient r.q with a sticky bit for a remainder, times 2^e, rounded
FRatioR(s, r, e) ==
    IF r.r = <<>> THEN FRound(s, BShl(r.q, 1), e)
    ELSE FRound(s, BAdd(BShl(r.q, 1), <<1>>), e)
FRatioK(s, n, d, e, k) ==
    FRatioR(s, BDivMod(IF k >= 0 THEN BShl(n, k) ELSE n, IF k >= 0 THEN d ELSE BShl(d, -k), MantBits + 3),
            e - k - 1)
\* n / d (d > 0) times 2^e, correctly rounded
FRatio(s, n, d, e) ==
    IF n = <<>> THEN FZero ELSE FRatioK(s, n, d, e, MantBits + 2 - (BBitLen(n) - BBitLen(d)))

FNeg(x) == IF x.m = <<>> THEN x ELSE [x EXCEPT !.s = 1 - x.s]
FMul(x, y) ==
    IF x.m = <<>> \/ y.m = <<>> THEN FZero
    ELSE FRound((x.s + y.s) % 2, BMul(x.m, y.m), x.e + y.e)
\* x / y for y # 0
FDiv(x, y) ==
    IF x.m = <<>> THEN FZero
    ELSE FRatio((x.s + y.s) % 2, x.m, y.m, x.e - y.e)
\* (-1)^xs * a + (-1)^ys * b, times 2^e, with c the order of a and b
FAddC(xs, ys, a, b, e, c) ==
    IF xs = ys THEN FRound(xs, BAdd(a, b), e)
    ELSE IF c = 0 THEN FZero
    ELSE FRound(IF c > 0 THEN xs ELSE ys, IF c > 0 THEN BSub(a, b) ELSE BSub(b, a), e)
FAddAt(xs, ys, a, b, e) == FAddC(xs, ys, a, b, e, BCmp(a, b))
FAddE(x, y, e) == FAddAt(x.s, y.s, BShl(x.m, x.e - e), BShl(y.m, y.e - e), e)
FAdd(x, y) ==
    IF x.m = <<>> THEN y
    ELSE IF y.m = <<>> THEN x
    ELSE FAddE(x, y, IF x.e < y.e THEN x.e ELSE y.e)
FSub(x, y) == FAdd(x, FNeg(y))

\* float(n) for a Python int n below 2^31
FInt(n) == FRound(0, BFromNat(n), 0)
\* float(hi * 10^9 + lo), a Python int above 2^31
FInt2(hi, lo) == FRound(0, BAdd(BMul(BFromNat(hi), BPow10(9)), BFromNat(lo)), 0)
\* the decimal literal n * 10^k, k >= 0, as in 1.71E+10
Sci(n, k) == FRound(0, BMul(BFromNat(n), BPow10(k)), 0)
\* the decimal literal (hi * 10^9 + lo) / 10^k, k > 0, as in 75.8
Dec2(hi, lo, k) == FRatio(0, BAdd(BMul(BFromNat(hi), BPow10(9)), BFromNat(lo)), BPow10(k), 0)
Dec(n, k) == FRatio(0, BFromNat(n), BPow10(k), 0)

\* sign of x - y
FSign(d) == IF d.m = <<>> THEN 0 ELSE IF d.s = 1 THEN -1 ELSE 1
FCmp(x, y) == FSign(FSub(x, y))
(* Exact rationals (-1)^s * (n / d) * 2^e, unrounded: what the claims measure floats against. *)
XZero == [s |-> 0, n |-> <<>>, d |-> <<1>>, e |-> 0]
XOfFloat(x) == [s |-> x.s, n |-> x.m, d |-> <<1>>, e |-> x.e]
XInt(k) == [s |-> 0, n |-> BFromNat(k), d |-> <<1>>, e |-> 0]
\* the decimal n * 10^k, exactly
XDec(n, k) ==
    IF k >= 0 THEN [s |-> 0, n |-> BMul(BPow10(k), BFromNat(n)), d |-> <<1>>, e |-> 0]
    ELSE [s |-> 0, n |-> BFromNat(n), d |-> BPow10(-k), e |-> 0]
XPow2(k) == [s |-> 0, n |-> <<1>>, d |-> <<1>>, e |-> k]
XNeg(x) == IF x.n = <<>> THEN x ELSE [x EXCEPT !.s = 1 - x.s]
XAbs(x) == [x EXCEPT !.s = 0]
XMul(x, y) ==
    IF x.n = <<>> \/ y.n = <<>> THEN XZero
    ELSE [s |-> (x.s + y.s) % 2, n |-> BMul(x.n, y.n), d |-> BMul(x.d, y.d), e |-> x.e + y.e]
XDiv(x, y) ==
    IF x.n = <<>> THEN XZero
    ELSE [s |-> (x.s + y.s) % 2, n |-> BMul(x.n, y.d), d |-> BMul(x.d, y.n), e |-> x.e - y.e]
XAdd(x, y) ==
    IF x.n = <<>> THEN y
    ELSE IF y.n = <<>> THEN x
    ELSE LET e == IF x.e < y.e THEN x.e ELSE y.e
             a == BMul(BShl(x.n, x.e - e), y.d)
             b == BMul(BShl(y.n, y.e - e), x.d)
             d == BMul(x.d, y.d)
             c == BCmp(a, b)
         IN  IF x.s = y.s THEN [s |-> x.s, n |-> BAdd(a, b), d |-> d, e |-> e]
             ELSE IF c = 0 THEN XZero
             ELSE IF c > 0 THEN [s |-> x.s, n |-> BSub(a, b), d |-> d, e |-> e]
             ELSE [s |-> y.s, n |-> BSub(b, a), d |-> d, e |-> e]
XSub(x, y) == XAdd(x, XNeg(y))
\* -1, 0, 1 as x < y, x = y, x > y
XSign(x) == IF x.n = <<>> THEN 0 ELSE IF x.s = 1 THEN -1 ELSE 1
XCmp(x, y) == XSign(XSub(x, y))
XLeq(x, y) == XCmp(x, y) <= 0
\* |x - y| <= tol * |y|
XWithin(x, y, tol) == XLeq(XAbs(XSub(x, y)), XMul(tol, XAbs(y)))

(* astropy units.  A unit is integer powers of named units; each named unit carries
   its definition, the number of base units it stands for.  Decomposition reduces a unit
   to a scale and powers of the irreducible units. *)
UnitNames == {"s", "wk", "yr", "deg", "FLOP", "cycle", "TFLOPS"}
UnitOrder == <<"s", "wk", "yr", "deg", "FLOP", "cycle", "TFLOPS">>
BaseNames == {"s", "rad", "FLOP"}
NoPowers == [n \in UnitNames |-> 0]
\* u.dimensionless_unscaled
NoUnit == [pow |-> NoPowers, def |-> [n \in {} |-> n]]
NamedUnit(name, scale) ==
    [pow |-> [NoPowers EXCEPT ![name] = 1], def |-> [n \in {name} |-> scale]]
\* the unit with powers p of the named units of u and v
Combined(p, u, v) ==
    [pow |-> p,
     def |-> [n \in {x \in UnitNames : p[x] # 0} |->
                 IF n \in DOMAIN u.def THEN u.def[n] ELSE v.def[n]]]
UMul(u, v) == Combined([n \in UnitNames |-> u.pow[n] + v.pow[n]], u, v)
UDiv(u, v) == Combined([n \in UnitNames |-> u.pow[n] - v.pow[n]], u, v)

\* the float 1.0
FOne == [s |-> 0, m |-> BShl(<<1>>, MantBits - 1), e |-> 1 - MantBits]
\* math.pi
Pi == Dec2(3141592, 653589793, 15)
\* u.second, u.week, u.year (Julian), u.degree
second == NamedUnit("s", FOne)
week == NamedUnit("wk", FInt(604800))
year == NamedUnit("yr", FInt(31557600))
degree == NamedUnit("deg", FDiv(Pi, FInt(180)))
\* flop = u.def_unit('FLOP')
flop == NamedUnit("FLOP", FOne)
\* cycle = u.def_unit('cycle', 4*0.68*flop)
CycleInFlop == FMul(FInt(4), Dec(68, 2))
cycle == NamedUnit("cycle", CycleInFlop)
\* tflops = u.def_unit('TFLOPS', (flop*10**12)/(1*u.second))
TflopsInFlopPerSecond == FDiv(FMul(FOne, Sci(1, 12)), FOne)
tflops == NamedUnit("TFLOPS", TflopsInFlopPerSecond)
\* the base unit b alone
Base1(b) == [x \in BaseNames |-> IF x = b THEN 1 ELSE 0]
\* the irreducible units each named unit is made of
UnitDims ==
    [s |-> Base1("s"), wk |-> Base1("s"), yr |-> Base1("s"), deg |-> Base1("rad"),
     FLOP |-> Base1("FLOP"), cycle |-> Base1("FLOP"),
     TFLOPS |-> [x \in BaseNames |-> IF x = "FLOP" THEN 1 ELSE IF x = "s" THEN -1 ELSE 0]]

RECURSIVE FPowNat(_, _)
FPowNat(x, k) == IF k = 0 THEN FOne ELSE FMul(FPowNat(x, k - 1), x)
\* x ** k
FPowSigned(p, k) == IF k >= 0 THEN p ELSE FDiv(FOne, p)
FPow(x, k) == FPowSigned(FPowNat(x, IF k >= 0 THEN k ELSE -k), k)

\* the named units u is made of, and the scale each contributes
UnitParts(u) == SelectSeq(UnitOrder, LAMBDA n : u.pow[n] # 0)
UnitFactors(u, names) == [i \in 1..Len(names) |-> FPow(u.def[names[i]], u.pow[names[i]])]
RECURSIVE UnitScaleFrom(_, _)
UnitScaleFrom(fs, i) == IF i = 0 THEN FOne ELSE FMul(UnitScaleFrom(fs, i - 1), fs[i])
UnitProduct(fs) == UnitScaleFrom(fs, Len(fs))
\* u.decompose().scale, for each unit u of the set us
UnitScale(us) == [u \in us |-> UnitProduct(UnitFactors(u, UnitParts(u)))]
RECURSIVE UnitBasePower(_, _, _)
UnitBasePower(u, b, i) ==
    IF i = 0 THEN 0
    ELSE UnitBasePower(u, b, i - 1) + u.pow[UnitOrder[i]] * UnitDims[UnitOrder[i]][b]
\* u.decompose().powers: the dimension of u
UnitBases(u) == [b \in BaseNames |-> UnitBasePower(u, b, Len(UnitOrder))]
Convertible(u, v) == UnitBases(u) = UnitBases(v)

(* Values.  A Quantity is a float with a unit; a plain Python number is a float alone.
   A raised exception is a value too, and every operation passes on the first exception
   among its operands. *)
UnitConversionError == "UnitConversionError"
ZeroDivisionError == "ZeroDivisionError"
Raise(kind) == [err |-> kind]
IsErr(q) == "err" \in DOMAIN q
Q(v, u) == [value |-> v, unit |-> u]
Num(x) == [value |-> x]
IsQuantity(q) == "unit" \in DOMAIN q
UnitOf(q) == IF IsQuantity(q) THEN q.unit ELSE NoUnit
\* the result of an operation on a and b: a Quantity as soon as one of them is
Result(a, b, v, u) == IF IsQuantity(a) \/ IsQuantity(b) THEN Q(v, u) ELSE Num(v)
\* a literal n / 10^k, as in 75.8
Lit(n, k) == Num(Dec(n, k))
\* a literal n * 10^k, as in 1.71E+10
LitE(n, k) == Num(Sci(n, k))
\* a unit object, as in 75.8*u.second
One(unit) == Q(FOne, unit)

Mul(a, b) ==
    IF IsErr(a) THEN a ELSE IF IsErr(b) THEN b
    ELSE Result(a, b, FMul(a.value, b.value), UMul(UnitOf(a), UnitOf(b)))
Div(a, b) ==
    IF IsErr(a) THEN a ELSE IF IsErr(b) THEN b
    ELSE IF b.value.m = <<>> THEN Raise(ZeroDivisionError)
    ELSE Result(a, b, FDiv(a.value, b.value), UDiv(UnitOf(a), UnitOf(b)))
RECURSIVE PowNat(_, _)
PowNat(a, k) == IF k = 1 THEN a ELSE Mul(PowNat(a, k - 1), a)
\* a ** k for an int k >= 1
Pow(a, k) == PowNat(a, k)
\* -a
Neg(a) == IF IsErr(a) THEN a ELSE [a EXCEPT !.value = FNeg(@)]
\* the two scales multiplied instead of divided
ToScaled_Product(q, unit, scale) ==
    Q(FMul(q.value, FMul(scale[q.unit], scale[unit])), unit)
\* q in another unit, given the scales of the two units
ToScaled(q, unit, scale) == Q(FMul(q.value, FDiv(scale[q.unit], scale[unit])), unit)
\* q.to(unit)
To(q, unit) ==
    IF IsErr(q) THEN q
    ELSE IF q.unit = unit THEN q
    ELSE IF ~Convertible(q.unit, unit) THEN Raise(UnitConversionError)
    ELSE ToScaled(q, unit, UnitScale({q.unit, unit}))
AsQuantity(x) == IF IsQuantity(x) THEN x ELSE Q(x.value, NoUnit)
\* a + b, given the operand that had to be converted, conv, and the other one
AddConverted(a, b, other, conv) ==
    IF IsErr(conv)
    THEN IF IsQuantity(a) /\ IsQuantity(b) THEN conv
         ELSE IF other.value.m = <<>> THEN (IF IsQuantity(a) THEN a ELSE b)
         ELSE conv
    ELSE Result(a, b, FAdd(other.value, conv.value), conv.unit)
\* the magnitudes added whatever the units
Add_Unchecked(a, b) ==
    IF IsErr(a) THEN a ELSE IF IsErr(b) THEN b
    ELSE Result(a, b, FAdd(a.value, b.value), UnitOf(a))
\* a + b.  Of two Quantities b is converted to the unit of a.  A Quantity and a plain
\* number: the Quantity is taken as a pure number when its unit allows it; otherwise
\* only a zero is accepted, as a number of any unit.
Add(a, b) ==
    IF IsErr(a) THEN a ELSE IF IsErr(b) THEN b
    ELSE AddConverted(a, b, IF IsQuantity(a) /\ ~IsQuantity(b) THEN b ELSE a,
                      To(AsQuantity(IF IsQuantity(a) /\ ~IsQuantity(b) THEN a ELSE b),
                         IF IsQuantity(a) /\ IsQuantity(b) THEN a.unit ELSE NoUnit))
\* a - b
Sub(a, b) == Add(a, Neg(b))
(* The parameter classes.  Both notebooks define them with the same text; no
   constructor checks its arguments. *)
PyInt(n) == Num(FInt(n))
Telescope(nCcds, nFilters, fieldOfView) ==
    [nCcds |-> nCcds, nFilters |-> nFilters, fieldOfView |-> fieldOfView]
Survey(duration, visits, epochs, fields, stars, surveyStars, forcedSources, computeTime) ==
    [duration |-> duration, nVisits |-> visits, nEpochs |-> epochs, nFields |-> fields,
     nStars |-> stars, nOutOfPlaneStars |-> surveyStars, nForcedSources |-> forcedSources,
     computeTime |-> computeTime]
Computer(clockSpeed) == [clockSpeed |-> clockSpeed]
CoaddParameters(pixelDensityFactor, imageReuse, deblendFactor) ==
    [pixelDensityFactor |-> pixelDensityFactor, imageReuse |-> imageReuse,
     deblendFactor |-> deblendFactor]
TemplateParameters(templateTypes, templateVersions, templateDepth) ==
    [nTypes |-> templateTypes, nVersions |-> templateVersions, depth |-> templateDepth]

\* lsst = Telescope(189, 6, pi*(1.75*u.degree)**2)
lsst == Telescope(PyInt(189), PyInt(6), Mul(Num(Pi), Pow(Mul(Lit(175, 2), One(degree)), 2)))
\* the two star counts in each other's place
lsstWideAndFastDR1_SwappedStars ==
    Survey(Mul(Lit(5, 1), One(year)),
           Div(PyInt(2750000), PyInt(20)),
           Div(PyInt(1056), PyInt(20)),
           PyInt(2604),
           Num(FInt2(5, 141033287)),
           Num(FInt2(14, 706186098)),
           LitE(119507, 7),
           Mul(PyInt(9), One(week)))
lsstWideAndFastDR1 ==
    Survey(Mul(Lit(5, 1), One(year)),
           Div(PyInt(2750000), PyInt(20)),
           Div(PyInt(1056), PyInt(20)),
           PyInt(2604),
           Num(FInt2(14, 706186098)),
           Num(FInt2(5, 141033287)),
           LitE(119507, 7),
           Mul(PyInt(9), One(week)))
lsstWideAndFast1Year ==
    Survey(One(year),
           Div(PyInt(2750000), PyInt(10)),
           Div(PyInt(1056), PyInt(10)),
           PyInt(2604),
           LitE(171, 8),
           LitE(563, 7),
           LitE(291, 10),
           Mul(PyInt(9), One(week)))
abe == Computer(Div(Mul(LitE(233, 7), One(cycle)), One(second)))
lsst_dev == Computer(Div(Mul(LitE(31, 8), One(cycle)), One(second)))
tiger3 == Computer(Div(Mul(LitE(28, 8), One(cycle)), One(second)))
ksk_mbp == Computer(Div(Mul(LitE(3, 9), One(cycle)), One(second)))
coaddParams == CoaddParameters(PyInt(1), PyInt(4), Lit(1, 1))
templateParams == TemplateParameters(PyInt(6), PyInt(3), PyInt(5))

\* the CCD count left out
calcDiffimCycles_NoCcds(timePerCcd, telescope, survey, computer) ==
    IF IsErr(timePerCcd) THEN timePerCcd ELSE
    Mul(Mul(timePerCcd, survey.nVisits), computer.clockSpeed)

(* The stage functions of the six-month notebook. *)
calcDiffimCycles(timePerCcd, telescope, survey, computer) ==
    IF IsErr(timePerCcd) THEN timePerCcd ELSE
    Mul(Mul(Mul(timePerCcd, telescope.nCcds), survey.nVisits), computer.clockSpeed)

calcTemplateCoadditionCycles(timePerCcd, cp, tp, telescope, survey, computer) ==
    IF IsErr(timePerCcd) THEN timePerCcd ELSE
    Mul(Mul(Mul(Mul(Mul(Mul(Mul(timePerCcd, telescope.nCcds), cp.pixelDensityFactor),
                        survey.nFields), tp.nTypes), tp.nVersions),
            tp.depth), computer.clockSpeed)

\* image reuse dividing the cost instead of multiplying it
calcDeepCoadditionCycles_DivideReuse(timePerCcd, cp, telescope, survey, computer) ==
    IF IsErr(timePerCcd) THEN timePerCcd ELSE
    Mul(Div(Mul(Mul(timePerCcd, telescope.nCcds), computer.clockSpeed), cp.imageReuse),
        survey.nVisits)
calcDeepCoadditionCycles(timePerCcd, cp, telescope, survey, computer) ==
    IF IsErr(timePerCcd) THEN timePerCcd ELSE
    Mul(Mul(Mul(Mul(timePerCcd, telescope.nCcds), computer.clockSpeed), cp.imageReuse),
        survey.nVisits)

calcCoaddProcessCycles(timePerCcd, cp, telescope, survey, computer) ==
    IF IsErr(timePerCcd) THEN timePerCcd ELSE
    LET perCoadd == Mul(Mul(Mul(Mul(timePerCcd, telescope.nCcds), computer.clockSpeed),
                            cp.pixelDensityFactor),
                        Add(cp.deblendFactor, PyInt(1)))
        coaddsPerField == Add(telescope.nFilters, PyInt(1))
    IN  Mul(Mul(perCoadd, coaddsPerField), survey.nFields)

\* the in-plane estimate added to the forced sources instead of subtracted
calcMultiEpochCycles_AddInPlane(timePerObject, survey, computer) ==
    IF IsErr(timePerObject) THEN timePerObject ELSE
    Mul(Mul(Add(survey.nForcedSources,
                Mul(Sub(survey.nStars, survey.nOutOfPlaneStars), survey.nEpochs)),
            timePerObject), computer.clockSpeed)
calcMultiEpochCycles(timePerObject, survey, computer) ==
    IF IsErr(timePerObject) THEN timePerObject ELSE
    LET galacticPlaneObjects == Sub(survey.nStars, survey.nOutOfPlaneStars)
        galacticPlaneForcedSrcs == Mul(galacticPlaneObjects, survey.nEpochs)
        outOfPlaneForcedSrcs == Sub(survey.nForcedSources, galacticPlaneForcedSrcs)
    IN  Mul(Mul(outOfPlaneForcedSrcs, timePerObject), computer.clockSpeed)

\* the clock speed left out of the product
calcAlertSDQA_NoClock(timePerVisit, survey, computer) ==
    IF IsErr(timePerVisit) THEN timePerVisit ELSE
    Mul(timePerVisit, survey.nVisits)
calcAlertSDQA(timePerVisit, survey, computer) ==
    IF IsErr(timePerVisit) THEN timePerVisit ELSE
    Mul(Mul(timePerVisit, survey.nVisits), computer.clockSpeed)

\* the sum with the last stage left out
totalCycles_OmitSdqa(env) ==
    Add(Add(Add(Add(env.diffimCycles, env.templateCycles), env.deepCoaddCycles),
            env.coaddProcessCycles), env.multiEpochCycles)
\* totalCycles = diffimCycles + templateCycles + deepCoaddCycles + coaddProcessCycles + ...
totalCycles(env) ==
    Add(Add(Add(Add(Add(env.diffimCycles, env.templateCycles), env.deepCoaddCycles),
                env.coaddProcessCycles), env.multiEpochCycles), env.sdqaCycles)
\* totalCycles.to(flop)
totalFlop(env) == To(env.totalCycles, flop)
\* the rate over the survey's duration instead of its compute window
throughput_OverDuration(env) ==
    To(Div(env.totalFlop, env.lsstWideAndFastDR1.duration), tflops)
\* (totalFlop / lsstWideAndFastDR1.computeTime).to(tflops)
throughput(env) == To(Div(env.totalFlop, env.lsstWideAndFastDR1.computeTime), tflops)

(* The stage functions and cell expressions of the one-year notebook. *)
calcDiffimCycles1Year(timePerCcd, telescope, survey, computer) ==
    IF IsErr(timePerCcd) THEN timePerCcd ELSE
    Mul(Mul(Mul(timePerCcd, telescope.nCcds), survey.nVisits), computer.clockSpeed)

calcTemplateCoadditionCycles1Year(timePerCcd, cp, tp, telescope, survey, computer) ==
    IF IsErr(timePerCcd) THEN timePerCcd ELSE
    Mul(Mul(Mul(Mul(Mul(Mul(Mul(timePerCcd, telescope.nCcds), cp.pixelDensityFactor),
                        survey.nFields), tp.nTypes), tp.nVersions),
            tp.depth), computer.clockSpeed)

calcDeepCoadditionCycles1Year(timePerCcd, cp, telescope, survey, computer) ==
    IF IsErr(timePerCcd) THEN timePerCcd ELSE
    Mul(Mul(Mul(Mul(timePerCcd, telescope.nCcds), computer.clockSpeed), cp.imageReuse),
        survey.nVisits)

calcMultiEpochCycles1Year(timePerObject, survey, computer) ==
    IF IsErr(timePerObject) THEN timePerObject ELSE
    LET galacticPlaneObjects == Sub(survey.nStars, survey.nOutOfPlaneStars)
        galacticPlaneForcedSrcs == Mul(galacticPlaneObjects, survey.nEpochs)
        outOfPlaneForcedSrcs == Sub(survey.nForcedSources, galacticPlaneForcedSrcs)
    IN  Mul(Mul(outOfPlaneForcedSrcs, timePerObject), computer.clockSpeed)

calcAlertSDQA1Year(timePerVisit, survey, computer) ==
    IF IsErr(timePerVisit) THEN timePerVisit ELSE
    Mul(Mul(timePerVisit, survey.nVisits), computer.clockSpeed)

nCalexps == PyInt(60)
hscToLsstScale == PyInt(2)
\* u.second * ((190.72 - 10.17) + (189.47 - 10.24))/2
makeTempExpTime ==
    Div(Mul(One(second), Add(Sub(Lit(19072, 2), Lit(1017, 2)), Sub(Lit(18947, 2), Lit(1024, 2)))),
        PyInt(2))
\* u.second * ((49.31 - 10.24) + (49.22 - 9.73))/2
assembleCoaddTime ==
    Div(Mul(One(second), Add(Sub(Lit(4931, 2), Lit(1024, 2)), Sub(Lit(4922, 2), Lit(973, 2)))),
        PyInt(2))
\* hscToLsstScale * (makeTempExpTime + assembleCoaddTime) / nCalexps
coaddCcdTime(env) ==
    Div(Mul(env.hscToLsstScale, Add(env.makeTempExpTime, env.assembleCoaddTime)),
        env.nCalexps)

\* (4000.0 * 4072.0) / (4200.0 * 4200.0)
coaddToCcd == Div(Mul(PyInt(4000), PyInt(4072)), Mul(PyInt(4200), PyInt(4200)))
\* (8.405 + 7.986 + 8.347) * coaddToCcd * u.second / 3
detectSeconds == Add(Add(Lit(8405, 3), Lit(7986, 3)), Lit(8347, 3))
detectTimePerCcd(env) == Div(Mul(Mul(detectSeconds, env.coaddToCcd), One(second)), PyInt(3))
\* (lsst.nFilters + 1)**2 * 12.798 / (3**2) * u.second
mergeSeconds == Lit(12798, 3)
mergeTime(env) ==
    Mul(Div(Mul(Pow(Add(env.lsst.nFilters, PyInt(1)), 2), mergeSeconds), Pow(PyInt(3), 2)),
        One(second))
\* (138.512 + 129.993 + 108.708) * coaddToCcd * u.second / 3
measureSeconds == Add(Add(Lit(138512, 3), Lit(129993, 3)), Lit(108708, 3))
measureTimePerCcd(env) == Div(Mul(Mul(measureSeconds, env.coaddToCcd), One(second)), PyInt(3))
coaddSrcDetAndMeasCycles(env) ==
    Mul(Mul(Mul(Mul(Mul(Add(env.detectTimePerCcd, env.measureTimePerCcd), env.lsst.nCcds),
                    env.lsst_dev.clockSpeed), env.coaddParams.pixelDensityFactor),
            Add(env.lsst.nFilters, PyInt(1))), env.lsstWideAndFast1Year.nFields)
\* the merge cost charged per CCD
coaddMergeCycles_PerCcd(env) ==
    Mul(Mul(Mul(env.mergeTime, env.lsst.nCcds), env.lsst_dev.clockSpeed),
        env.lsstWideAndFast1Year.nFields)
coaddMergeCycles(env) ==
    Mul(Mul(env.mergeTime, env.lsst_dev.clockSpeed), env.lsstWideAndFast1Year.nFields)
\* coaddMergeCycles + coaddSrcDetAndMeasCycles
coaddProcessCycles1Year(env) == Add(env.coaddMergeCycles, env.coaddSrcDetAndMeasCycles)

numSources == PyInt(10983)
\* u.second * (62.428 + 62.082 + 56.435) / (3 * numSources)
forcedSeconds == Add(Add(Lit(62428, 3), Lit(62082, 3)), Lit(56435, 3))
forcedPhotometryTimePerObject(env) ==
    Div(Mul(One(second), forcedSeconds), Mul(PyInt(3), env.numSources))
\* timePerObject += 200 * 0.56 / 1000 * u.second
multifitTime == Mul(Div(Mul(PyInt(200), Lit(56, 2)), PyInt(1000)), One(second))
timePerObject(env) == Add(env.timePerObject, multifitTime)

totalCycles1Year(env) ==
    Add(Add(Add(Add(Add(env.diffimCycles, env.templateCycles), env.deepCoaddCycles),
                env.coaddProcessCycles), env.multiEpochCycles), env.sdqaCycles)
totalFlop1Year(env) == To(env.totalCycles, flop)
\* (totalFlop / lsstWideAndFast1Year.computeTime).to(tflops)
throughput1Year(env) == To(Div(env.totalFlop, env.lsstWideAndFast1Year.computeTime), tflops)

(* The kernels.  pc[r] is the code cell kernel r executes next, ns[r] its namespace,
   out[r] the values its cells displayed, err[r] the exception that stopped it, and
   calls[r] how many times it has called each stage function. *)
VARIABLES pc, ns, out, err, calls

Kernels == {"DR1", "1Year"}
NoError == "none"
EmptyNamespace == [x \in {} |-> x]
StageFunctions ==
    {"calcDiffimCycles", "calcTemplateCoadditionCycles", "calcDeepCoadditionCycles",
     "calcCoaddProcessCycles", "calcMultiEpochCycles", "calcAlertSDQA"}
NoCalls == [fn \in StageFunctions |-> 0]
LastCellDR1 == 14
LastCell1Year == 15
LastCell(r) == IF r = "DR1" THEN LastCellDR1 ELSE LastCell1Year
Finished(r) == pc[r] = LastCell(r) + 1 /\ err[r] = NoError
Aborted(r) == err[r] # NoError
Bound(r, name) == name \in DOMAIN ns[r]
Ran(r, k) == pc[r] > k

(* A cell under execution: the namespace so far, the exception raised if any, and the
   value of the last expression, which the notebook displays. *)
\* a kernel that sees the names of the other notebook
Frame_Shared(r) ==
    [ns |-> ns[CHOOSE q \in Kernels : q # r] @@ ns[r], err |-> NoError, shown |-> <<>>,
     calls |-> calls[r]]
Frame(r) == [ns |-> ns[r], err |-> NoError, shown |-> <<>>, calls |-> calls[r]]
\* name = v.  After an exception nothing more of the cell is executed.
Assign(f, name, v) ==
    IF f.err # NoError THEN f
    ELSE IF IsErr(v) THEN [f EXCEPT !.err = v.err]
    ELSE [f EXCEPT !.ns = (name :> v) @@ @]
\* name = fn(...), v being what the call returns or raises
AssignCall(f, name, fn, v) ==
    IF f.err # NoError THEN f
    ELSE IF IsErr(v) THEN [f EXCEPT !.err = v.err, !.calls[fn] = @ + 1]
    ELSE [f EXCEPT !.ns = (name :> v) @@ @, !.calls[fn] = @ + 1]
\* a last line that is an expression
Display(f, v) ==
    IF f.err # NoError THEN f
    ELSE IF IsErr(v) THEN [f EXCEPT !.err = v.err]
    ELSE [f EXCEPT !.shown = <<v>>]
\* a last line that is a name
DisplayName(f, name) == Display(f, f.ns[name])

\* Kernel r is at cell k
Ready(r, k) == pc[r] = k /\ err[r] = NoError
\* Kernel r executes cell k, which leaves frame f: the assignments made before an
\* exception stay, and the run stops at the cell that raised.
Exec(r, k, f) ==
    /\ ns' = [ns EXCEPT ![r] = f.ns]
    /\ err' = [err EXCEPT ![r] = f.err]
    /\ pc' = [pc EXCEPT ![r] = IF f.err = NoError THEN k + 1 ELSE k]
    /\ calls' = [calls EXCEPT ![r] = f.calls]
    /\ out' = IF f.err = NoError /\ f.shown # <<>>
              THEN [out EXCEPT ![r] = (k :> f.shown[1]) @@ @]
              ELSE out

(* The statements the two notebooks share. *)
ImportPi(f) == Assign(f, "pi", Num(Pi))
DefFlop(f) == Assign(f, "flop", One(flop))
DefCycle(f) == Assign(f, "cycle", One(cycle))
DefTflops(f) == Assign(f, "tflops", One(tflops))
DefLsst(f) == Assign(f, "lsst", lsst)
DefAbe(f) == Assign(f, "abe", abe)
DefLsstDev(f) == Assign(f, "lsst_dev", lsst_dev)
DefTiger3(f) == Assign(f, "tiger3", tiger3)
DefCoaddParams(f) == Assign(f, "coaddParams", coaddParams)
DefTemplateParams(f) == Assign(f, "templateParams", templateParams)

(* The six-month notebook, cell by cell. *)
DR1_Imports ==
    /\ Ready("DR1", 1)
    /\ Exec("DR1", 1, ImportPi(Frame("DR1")))
DR1_DefineUnits ==
    /\ Ready("DR1", 2)
    /\ Exec("DR1", 2, DefTflops(DefCycle(DefFlop(Frame("DR1")))))
DR1_DefineTelescope ==
    /\ Ready("DR1", 3)
    /\ Exec("DR1", 3, DefLsst(Frame("DR1")))
DR1_DefineSurvey ==
    /\ Ready("DR1", 4)
    /\ Exec("DR1", 4, Assign(Frame("DR1"), "lsstWideAndFastDR1", lsstWideAndFastDR1))
DR1_DefineComputers ==
    /\ Ready("DR1", 5)
    /\ Exec("DR1", 5, DefTiger3(DefLsstDev(DefAbe(Frame("DR1")))))
DR1_DefineParameters ==
    /\ Ready("DR1", 6)
    /\ Exec("DR1", 6, DefTemplateParams(DefCoaddParams(Frame("DR1"))))

\* the measured times written in the calls of the stage functions
\* 75.8*u.second
hscCcdTime == Mul(Lit(758, 1), One(second))
\* 6.19*u.second
hscDetectTime == Mul(Lit(619, 2), One(second))
\* 10.50*u.second
hscMeasureTime == Mul(Lit(1050, 2), One(second))
\* 0.096*u.second
hscObjectTime == Mul(Lit(96, 3), One(second))
\* 600*u.second
sdqaVisitTime == Mul(PyInt(600), One(second))
\* 70*u.second
diffimCcdTime1Year == Mul(PyInt(70), One(second))

\* the call made twice
DR1_SetDiffim_Twice(f) ==
    AssignCall(AssignCall(f, "diffimCycles", "calcDiffimCycles",
                          calcDiffimCycles(hscCcdTime, f.ns.lsst, f.ns.lsstWideAndFastDR1,
                                           f.ns.abe)),
               "diffimCycles", "calcDiffimCycles",
               calcDiffimCycles(hscCcdTime, f.ns.lsst, f.ns.lsstWideAndFastDR1, f.ns.abe))
\* the stage function scaling the survey's visits in place
DR1_SetDiffim_ScalesSurvey(f) ==
    Assign(AssignCall(f, "diffimCycles", "calcDiffimCycles",
                      calcDiffimCycles(hscCcdTime, f.ns.lsst, f.ns.lsstWideAndFastDR1,
                                       f.ns.abe)),
           "lsstWideAndFastDR1",
           [f.ns.lsstWideAndFastDR1 EXCEPT !.nVisits = Mul(@, f.ns.lsst.nCcds)])
\* diffimCycles = calcDiffimCycles(75.8*u.second, lsst, lsstWideAndFastDR1, abe)
DR1_SetDiffim(f) ==
    AssignCall(f, "diffimCycles", "calcDiffimCycles",
               calcDiffimCycles(hscCcdTime, f.ns.lsst, f.ns.lsstWideAndFastDR1,
                                f.ns.abe))
DR1_Diffim ==
    /\ Ready("DR1", 7)
    /\ Exec("DR1", 7, DisplayName(DR1_SetDiffim(Frame("DR1")), "diffimCycles"))

DR1_SetTemplate(f) ==
    AssignCall(f, "templateCycles", "calcTemplateCoadditionCycles",
               calcTemplateCoadditionCycles(hscCcdTime, f.ns.coaddParams,
                                            f.ns.templateParams, f.ns.lsst,
                                            f.ns.lsstWideAndFastDR1, f.ns.abe))
DR1_Template ==
    /\ Ready("DR1", 8)
    /\ Exec("DR1", 8, DisplayName(DR1_SetTemplate(Frame("DR1")), "templateCycles"))

DR1_SetDeepCoadd(f) ==
    AssignCall(f, "deepCoaddCycles", "calcDeepCoadditionCycles",
               calcDeepCoadditionCycles(hscCcdTime, f.ns.coaddParams, f.ns.lsst,
                                        f.ns.lsstWideAndFastDR1, f.ns.abe))
DR1_DeepCoadd ==
    /\ Ready("DR1", 9)
    /\ Exec("DR1", 9, DisplayName(DR1_SetDeepCoadd(Frame("DR1")), "deepCoaddCycles"))

\* coaddSrcDetCycles = calcCoaddProcessCycles(6.19*u.second, ...)
DR1_SetCoaddSrcDet(f) ==
    AssignCall(f, "coaddSrcDetCycles", "calcCoaddProcessCycles",
               calcCoaddProcessCycles(hscDetectTime, f.ns.coaddParams, f.ns.lsst,
                                      f.ns.lsstWideAndFastDR1, f.ns.abe))
\* coaddSrcMeasCycles = calcCoaddProcessCycles(10.50*u.second, ...)
DR1_SetCoaddSrcMeas(f) ==
    AssignCall(f, "coaddSrcMeasCycles", "calcCoaddProcessCycles",
               calcCoaddProcessCycles(hscMeasureTime, f.ns.coaddParams, f.ns.lsst,
                                      f.ns.lsstWideAndFastDR1, f.ns.abe))
\* coaddProcessCycles = coaddSrcDetCycles + coaddSrcMeasCycles
DR1_SetCoaddProcess(f) ==
    Assign(f, "coaddProcessCycles", Add(f.ns.coaddSrcDetCycles, f.ns.coaddSrcMeasCycles))
DR1_CoaddProcess ==
    /\ Ready("DR1", 10)
    /\ Exec("DR1", 10,
         DisplayName(DR1_SetCoaddProcess(DR1_SetCoaddSrcMeas(DR1_SetCoaddSrcDet(Frame("DR1")))),
                     "coaddProcessCycles"))

\* multiEpochCycles = calcMultiEpochCycles(0.096*u.second, lsstWideAndFastDR1, lsst_dev)
DR1_SetMultiEpoch(f) ==
    AssignCall(f, "multiEpochCycles", "calcMultiEpochCycles",
               calcMultiEpochCycles(hscObjectTime, f.ns.lsstWideAndFastDR1,
                                    f.ns.lsst_dev))
DR1_MultiEpoch ==
    /\ Ready("DR1", 11)
    /\ Exec("DR1", 11, DisplayName(DR1_SetMultiEpoch(Frame("DR1")), "multiEpochCycles"))

\* sdqaCycles = calcAlertSDQA(600*u.second, lsstWideAndFastDR1, abe)
DR1_SetSdqa(f) ==
    AssignCall(f, "sdqaCycles", "calcAlertSDQA",
               calcAlertSDQA(sdqaVisitTime, f.ns.lsstWideAndFastDR1, f.ns.abe))
DR1_AlertSDQA ==
    /\ Ready("DR1", 12)
    /\ Exec("DR1", 12, DisplayName(DR1_SetSdqa(Frame("DR1")), "sdqaCycles"))

DR1_SetTotalCycles(f) == Assign(f, "totalCycles", totalCycles(f.ns))
DR1_SetTotalFlop(f) == Assign(f, "totalFlop", totalFlop(f.ns))
DR1_Totals ==
    /\ Ready("DR1", 13)
    /\ Exec("DR1", 13, DisplayName(DR1_SetTotalFlop(DR1_SetTotalCycles(Frame("DR1"))), "totalFlop"))

DR1_ShowThroughput(f) == Display(f, throughput(f.ns))
DR1_Throughput ==
    /\ Ready("DR1", 14)
    /\ Exec("DR1", 14, DR1_ShowThroughput(Frame("DR1")))

(* The one-year notebook, cell by cell. *)
Y1_Imports ==
    /\ Ready("1Year", 1)
    /\ Exec("1Year", 1, ImportPi(Frame("1Year")))
Y1_DefineUnits ==
    /\ Ready("1Year", 2)
    /\ Exec("1Year", 2, DefTflops(DefCycle(DefFlop(Frame("1Year")))))
Y1_DefineTelescope ==
    /\ Ready("1Year", 3)
    /\ Exec("1Year", 3, DefLsst(Frame("1Year")))
Y1_DefineSurvey ==
    /\ Ready("1Year", 4)
    /\ Exec("1Year", 4, Assign(Frame("1Year"), "lsstWideAndFast1Year", lsstWideAndFast1Year))
Y1_DefineComputers ==
    /\ Ready("1Year", 5)
    /\ Exec("1Year", 5, Assign(DefTiger3(DefLsstDev(DefAbe(Frame("1Year")))), "ksk_mbp", ksk_mbp))
Y1_DefineParameters ==
    /\ Ready("1Year", 6)
    /\ Exec("1Year", 6, DefTemplateParams(DefCoaddParams(Frame("1Year"))))

\* diffimCycles = calcDiffimCycles(70*u.second, lsst, lsstWideAndFast1Year, lsst_dev)
Y1_SetDiffim(f) ==
    AssignCall(f, "diffimCycles", "calcDiffimCycles",
               calcDiffimCycles1Year(diffimCcdTime1Year, f.ns.lsst, f.ns.lsstWideAndFast1Year,
                                     f.ns.lsst_dev))
Y1_Diffim ==
    /\ Ready("1Year", 7)
    /\ Exec("1Year", 7, DisplayName(Y1_SetDiffim(Frame("1Year")), "diffimCycles"))

\* nCalexps, hscToLsstScale = 60, 2
Y1_SetCounts(f) == Assign(Assign(f, "nCalexps", nCalexps), "hscToLsstScale", hscToLsstScale)
Y1_SetWarpTimes(f) ==
    Assign(Assign(f, "makeTempExpTime", makeTempExpTime), "assembleCoaddTime", assembleCoaddTime)
Y1_SetCoaddCcdTime(f) == Assign(f, "coaddCcdTime", coaddCcdTime(f.ns))
Y1_CoaddCcdTime ==
    /\ Ready("1Year", 8)
    /\ Exec("1Year", 8,
         DisplayName(Y1_SetCoaddCcdTime(Y1_SetWarpTimes(Y1_SetCounts(Frame("1Year")))),
                     "coaddCcdTime"))

Y1_SetTemplate(f) ==
    AssignCall(f, "templateCycles", "calcTemplateCoadditionCycles",
               calcTemplateCoadditionCycles1Year(f.ns.coaddCcdTime, f.ns.coaddParams,
                                                 f.ns.templateParams, f.ns.lsst,
                                                 f.ns.lsstWideAndFast1Year, f.ns.tiger3))
Y1_Template ==
    /\ Ready("1Year", 9)
    /\ Exec("1Year", 9, DisplayName(Y1_SetTemplate(Frame("1Year")), "templateCycles"))

Y1_SetDeepCoadd(f) ==
    AssignCall(f, "deepCoaddCycles", "calcDeepCoadditionCycles",
               calcDeepCoadditionCycles1Year(f.ns.coaddCcdTime, f.ns.coaddParams, f.ns.lsst,
                                             f.ns.lsstWideAndFast1Year, f.ns.abe))
Y1_DeepCoadd ==
    /\ Ready("1Year", 10)
    /\ Exec("1Year", 10, DisplayName(Y1_SetDeepCoadd(Frame("1Year")), "deepCoaddCycles"))

Y1_SetCoaddToCcd(f) == Assign(f, "coaddToCcd", coaddToCcd)
Y1_SetDetectTime(f) == Assign(f, "detectTimePerCcd", detectTimePerCcd(f.ns))
Y1_SetMergeTime(f) == Assign(f, "mergeTime", mergeTime(f.ns))
Y1_SetMeasureTime(f) == Assign(f, "measureTimePerCcd", measureTimePerCcd(f.ns))
Y1_SetDetAndMeas(f) == Assign(f, "coaddSrcDetAndMeasCycles", coaddSrcDetAndMeasCycles(f.ns))
Y1_SetMerge(f) == Assign(f, "coaddMergeCycles", coaddMergeCycles(f.ns))
Y1_SetCoaddProcess(f) == Assign(f, "coaddProcessCycles", coaddProcessCycles1Year(f.ns))
Y1_CoaddProcess ==
    /\ Ready("1Year", 11)
    /\ Exec("1Year", 11,
         DisplayName(Y1_SetCoaddProcess(Y1_SetMerge(Y1_SetDetAndMeas(Y1_SetMeasureTime(
                         Y1_SetMergeTime(Y1_SetDetectTime(Y1_SetCoaddToCcd(Frame("1Year")))))))),
                     "coaddProcessCycles"))

Y1_SetNumSources(f) == Assign(f, "numSources", numSources)
Y1_SetForcedTime(f) == Assign(f, "timePerObject", forcedPhotometryTimePerObject(f.ns))
Y1_AddMultifitTime(f) == Assign(f, "timePerObject", timePerObject(f.ns))
Y1_SetMultiEpoch(f) ==
    AssignCall(f, "multiEpochCycles", "calcMultiEpochCycles",
               calcMultiEpochCycles1Year(f.ns.timePerObject, f.ns.lsstWideAndFast1Year,
                                         f.ns.lsst_dev))
Y1_MultiEpoch ==
    /\ Ready("1Year", 12)
    /\ Exec("1Year", 12,
         DisplayName(Y1_SetMultiEpoch(Y1_AddMultifitTime(Y1_SetForcedTime(
                         Y1_SetNumSources(Frame("1Year"))))),
                     "multiEpochCycles"))

Y1_SetSdqa(f) ==
    AssignCall(f, "sdqaCycles", "calcAlertSDQA",
               calcAlertSDQA1Year(sdqaVisitTime, f.ns.lsstWideAndFast1Year, f.ns.abe))
Y1_AlertSDQA ==
    /\ Ready("1Year", 13)
    /\ Exec("1Year", 13, DisplayName(Y1_SetSdqa(Frame("1Year")), "sdqaCycles"))

Y1_SetTotalCycles(f) == Assign(f, "totalCycles", totalCycles1Year(f.ns))
Y1_SetTotalFlop(f) == Assign(f, "totalFlop", totalFlop1Year(f.ns))
Y1_Totals ==
    /\ Ready("1Year", 14)
    /\ Exec("1Year", 14,
         DisplayName(Y1_SetTotalFlop(Y1_SetTotalCycles(Frame("1Year"))), "totalFlop"))

Y1_ShowThroughput(f) == Display(f, throughput1Year(f.ns))
Y1_Throughput ==
    /\ Ready("1Year", 15)
    /\ Exec("1Year", 15, Y1_ShowThroughput(Frame("1Year")))

Init ==
    /\ pc = [r \in Kernels |-> 1]
    /\ ns = [r \in Kernels |-> EmptyNamespace]
    /\ out = [r \in Kernels |-> EmptyNamespace]
    /\ err = [r \in Kernels |-> NoError]
    /\ calls = [r \in Kernels |-> NoCalls]

Next ==
    \/ DR1_Imports \/ DR1_DefineUnits \/ DR1_DefineTelescope \/ DR1_DefineSurvey
    \/ DR1_DefineComputers \/ DR1_DefineParameters \/ DR1_Diffim \/ DR1_Template
    \/ DR1_DeepCoadd \/ DR1_CoaddProcess \/ DR1_MultiEpoch \/ DR1_AlertSDQA
    \/ DR1_Totals \/ DR1_Throughput
    \/ Y1_Imports \/ Y1_DefineUnits \/ Y1_DefineTelescope \/ Y1_DefineSurvey
    \/ Y1_DefineComputers \/ Y1_DefineParameters \/ Y1_Diffim \/ Y1_CoaddCcdTime
    \/ Y1_Template \/ Y1_DeepCoadd \/ Y1_CoaddProcess \/ Y1_MultiEpoch \/ Y1_AlertSDQA
    \/ Y1_Totals \/ Y1_Throughput

vars == <<pc, ns, out, err, calls>>
Spec == Init /\ [][Next]_vars

(* A finished notebook edited and run again.  The user changes a parameter object in
   the namespace of a kernel that has run every cell, then runs the stage cells again
   from the first one ("run all below"): the cells are the same code, executed on the
   edited objects.  One notebook is open at a time, and it is edited once; the other
   kernel is never started and stays at cell 0. *)
FirstStageCell == 7
MultiEpochCell(r) == IF r = "DR1" THEN 11 ELSE 12
SurveyName(r) == IF r = "DR1" THEN "lsstWideAndFastDR1" ELSE "lsstWideAndFast1Year"
StageTotals ==
    {"diffimCycles", "templateCycles", "deepCoaddCycles", "coaddProcessCycles",
     "multiEpochCycles", "sdqaCycles"}
\* the attributes the stage functions scale with, and the object each belongs to
ScaleParameters ==
    {"nCcds", "nFilters", "nVisits", "nEpochs", "nFields", "nStars", "nOutOfPlaneStars",
     "nForcedSources", "pixelDensityFactor", "imageReuse", "nTypes", "nVersions", "depth"}
Owner(r, attr) ==
    IF attr \in {"nCcds", "nFilters"} THEN "lsst"
    ELSE IF attr \in {"pixelDensityFactor", "imageReuse"} THEN "coaddParams"
    ELSE IF attr \in {"nTypes", "nVersions", "depth"} THEN "templateParams"
    ELSE SurveyName(r)

\* the values an edit draws from
MaxRaise == 2
SampleStars == {PyInt(1), PyInt(10)}
SampleOutOfPlaneStars == {PyInt(2)}
SampleEpochs == {PyInt(2), PyInt(3)}
\* a forced-source count, or by mistake the time the forced photometry took
SampleForcedSources == {PyInt(20), Mul(PyInt(20), One(second))}
SampleComputers == {lsst_dev, tiger3}

\* obj.attr = v
SetAttr(f, obj, attr, v) ==
    IF f.err # NoError THEN f
    ELSE IF IsErr(v) THEN [f EXCEPT !.err = v.err]
    ELSE [f EXCEPT !.ns[obj][attr] = v]
\* The edit leaves frame f; the kernel goes back to the first stage cell.  What the
\* cells displayed before stays on the page until they run again.
Rerun(r, f) ==
    /\ ns' = [ns EXCEPT ![r] = f.ns]
    /\ err' = [err EXCEPT ![r] = f.err]
    /\ pc' = [pc EXCEPT ![r] = FirstStageCell]
    /\ calls' = [calls EXCEPT ![r] = f.calls]
    /\ out' = out
Edited(r) == Bound(r, "previous") \/ Bound(r, "edited")

\* survey = Survey(survey.duration, survey.nVisits, epochs, survey.nFields, stars,
\*                 surveyStars, forcedSources, survey.computeTime)
ReplaceSurvey(f, name, epochs, stars, surveyStars, forcedSources) ==
    Assign(f, name,
           Survey(f.ns[name].duration, f.ns[name].nVisits, epochs, f.ns[name].nFields, stars,
                  surveyStars, forcedSources, f.ns[name].computeTime))
\* another survey, another machine for the multi-epoch stage
EditSurvey ==
    \E r \in Kernels, stars \in SampleStars, surveyStars \in SampleOutOfPlaneStars,
       epochs \in SampleEpochs, forcedSources \in SampleForcedSources,
       computer \in SampleComputers :
        /\ Finished(r)
        /\ ~Edited(r)
        /\ Rerun(r, Assign(Assign(ReplaceSurvey(Frame(r), SurveyName(r), epochs, stars,
                                                surveyStars, forcedSources),
                                  "lsst_dev", computer),
                           "edited", PyInt(1)))

\* previous = the six stage totals; obj.attr += by
Snapshot(env) == [s \in StageTotals |-> env[s]]
RaiseAttr(f, obj, attr, by) ==
    SetAttr(Assign(Assign(f, "previous", Snapshot(f.ns)), "raised", [attr |-> attr, by |-> by]),
            obj, attr, Add(f.ns[obj][attr], by))
RaiseParameter ==
    \E r \in Kernels, attr \in ScaleParameters, by \in 1..MaxRaise :
        /\ Finished(r)
        /\ ~Edited(r)
        /\ Rerun(r, RaiseAttr(Frame(r), Owner(r, attr), attr, PyInt(by)))

InitEdit ==
    \E r \in Kernels :
        /\ pc = [q \in Kernels |-> IF q = r THEN 1 ELSE 0]
        /\ ns = [q \in Kernels |-> EmptyNamespace]
        /\ out = [q \in Kernels |-> EmptyNamespace]
        /\ err = [q \in Kernels |-> NoError]
        /\ calls = [q \in Kernels |-> NoCalls]
NextEdit == Next \/ EditSurvey \/ RaiseParameter
SpecEdit == InitEdit /\ [][NextEdit]_vars

(* Scratch cells.  Once the six-month notebook has defined its units (cells 1 and 2),
   the user tries the unit arithmetic the stage cells rely on: sums of two and three
   values, and conversions between cycles and FLOP.  The scratch cells are not cells of
   the notebook: the kernel stays before cell 3.  A scratch cell that raises stops the
   session. *)
UnitsDefined(r) == Ready(r, 3)
MaxMagnitude == 13
SampleMagnitudes == {Lit(0, 1), Lit(1, 1), Lit(2, 1), Lit(3, 1)}
SampleUnits == {"plain", "second", "flop", "cycle"}
\* u.second is the library's; flop and cycle are the notebook's own
UnitObject(env, name) == IF name = "second" THEN One(second) ELSE env[name]
\* magnitude, or magnitude * unit
Sample(env, magnitude, name) ==
    IF name = "plain" THEN magnitude ELSE Mul(magnitude, UnitObject(env, name))
Scratch(r, f) ==
    /\ ns' = [ns EXCEPT ![r] = f.ns]
    /\ err' = [err EXCEPT ![r] = f.err]
    /\ UNCHANGED <<pc, out, calls>>

\* a = ...; b = ...
S_Operands ==
    \E ma \in SampleMagnitudes, mb \in SampleMagnitudes, ua \in SampleUnits, ub \in SampleUnits :
        /\ UnitsDefined("DR1")
        /\ ~Bound("DR1", "a") /\ ~Bound("DR1", "x")
        /\ Scratch("DR1", Assign(Assign(Frame("DR1"), "a", Sample(ns["DR1"], ma, ua)),
                                 "b", Sample(ns["DR1"], mb, ub)))
\* sum = a + b
S_Add ==
    /\ UnitsDefined("DR1")
    /\ Bound("DR1", "a") /\ ~Bound("DR1", "sum")
    /\ Scratch("DR1", Assign(Frame("DR1"), "sum", Add(ns["DR1"].a, ns["DR1"].b)))
\* swapped = b + a
S_AddSwapped ==
    /\ UnitsDefined("DR1")
    /\ Bound("DR1", "sum") /\ ~Bound("DR1", "swapped")
    /\ Scratch("DR1", Assign(Frame("DR1"), "swapped", Add(ns["DR1"].b, ns["DR1"].a)))
\* c = ...; left = (a + b) + c; right = a + (b + c)
S_SetLeft(f) == Assign(f, "left", Add(Add(f.ns.a, f.ns.b), f.ns.c))
S_SetRight(f) == Assign(f, "right", Add(f.ns.a, Add(f.ns.b, f.ns.c)))
S_AddThree ==
    \E mc \in SampleMagnitudes, uc \in SampleUnits :
        /\ UnitsDefined("DR1")
        /\ Bound("DR1", "swapped") /\ ~Bound("DR1", "c")
        /\ Scratch("DR1", S_SetRight(S_SetLeft(Assign(Frame("DR1"), "c",
                                                       Sample(ns["DR1"], mc, uc)))))

\* x = m * cycle, or x = m * flop
S_Quantity ==
    \E m \in 1..MaxMagnitude, unit \in {"flop", "cycle"} :
        /\ UnitsDefined("DR1")
        /\ ~Bound("DR1", "a") /\ ~Bound("DR1", "x")
        /\ Scratch("DR1", Assign(Frame("DR1"), "x", Mul(PyInt(m), ns["DR1"][unit])))
\* inCycles = x.to(cycle)
S_ToCycles ==
    /\ UnitsDefined("DR1")
    /\ Bound("DR1", "x") /\ ~Bound("DR1", "inCycles")
    /\ Scratch("DR1", Assign(Frame("DR1"), "inCycles", To(ns["DR1"].x, ns["DR1"].cycle.unit)))
\* inFlop = inCycles.to(flop)
S_ToFlop ==
    /\ UnitsDefined("DR1")
    /\ Bound("DR1", "inCycles") /\ ~Bound("DR1", "inFlop")
    /\ Scratch("DR1", Assign(Frame("DR1"), "inFlop", To(ns["DR1"].inCycles, ns["DR1"].flop.unit)))
\* back = inFlop.to(cycle)
S_BackToCycles ==
    /\ UnitsDefined("DR1")
    /\ Bound("DR1", "inFlop") /\ ~Bound("DR1", "back")
    /\ Scratch("DR1", Assign(Frame("DR1"), "back", To(ns["DR1"].inFlop, ns["DR1"].cycle.unit)))

InitScratch ==
    /\ pc = [q \in Kernels |-> IF q = "DR1" THEN 1 ELSE 0]
    /\ ns = [q \in Kernels |-> EmptyNamespace]
    /\ out = [q \in Kernels |-> EmptyNamespace]
    /\ err = [q \in Kernels |-> NoError]
    /\ calls = [q \in Kernels |-> NoCalls]
NextScratch ==
    \/ DR1_Imports \/ DR1_DefineUnits
    \/ S_Operands \/ S_Add \/ S_AddSwapped \/ S_AddThree
    \/ S_Quantity \/ S_ToCycles \/ S_ToFlop \/ S_BackToCycles
SpecScratch == InitScratch /\ [][NextScratch]_vars

(* What the specification claims, measured against the notebooks' runs.  Floats are
   compared with exact rationals: XVal(q) is the magnitude of q, unrounded. *)
XVal(q) == XOfFloat(q.value)
DiffimCell == FirstStageCell
CoaddProcessCell(r) == IF r = "DR1" THEN 10 ELSE 11
TotalsCell(r) == LastCell(r) - 1
\* the six stage totals of a namespace, added exactly
StageSum(env) ==
    XAdd(XAdd(XAdd(XAdd(XAdd(XVal(env.diffimCycles), XVal(env.templateCycles)),
                        XVal(env.deepCoaddCycles)),
                   XVal(env.coaddProcessCycles)),
              XVal(env.multiEpochCycles)),
         XVal(env.sdqaCycles))
\* 4 x 0.68 FLOP per cycle, and the seconds of a week
FlopPerCycle == XDec(272, -2)
SecondsPerWeek == XInt(604800)
\* the compute window of kernel r's survey, in seconds
ComputeWindow(r) == XMul(XVal(ns[r][SurveyName(r)].computeTime), SecondsPerWeek)
\* the throughput in TFLOPS that the stage totals of kernel r amount to
ExactThroughput(r) ==
    XDiv(XDiv(XMul(StageSum(ns[r]), FlopPerCycle), ComputeWindow(r)), XDec(1, 12))

\* C1: in each scenario the total is the sum of exactly the six stage totals, each once;
\* the total in FLOP is that sum times 2.72, and the reported throughput is the total in
\* FLOP divided by the survey's compute window, in units of 10^12 FLOP per second.
\* The floats agree with the exact values to within rounding (2^-50, 2^-48).
C1_TotalIsSumOfSixStages ==
    \A r \in Kernels :
        /\ Ran(r, TotalsCell(r)) =>
              /\ ns[r].totalCycles.unit = cycle
              /\ XWithin(XVal(ns[r].totalCycles), StageSum(ns[r]), XPow2(-50))
              /\ ns[r].totalFlop.unit = flop
              /\ XWithin(XVal(ns[r].totalFlop), XMul(StageSum(ns[r]), FlopPerCycle), XPow2(-50))
        /\ Finished(r) =>
              /\ ns[r][SurveyName(r)].computeTime.unit = week
              /\ out[r][LastCell(r)].unit = tflops
              /\ XWithin(XVal(out[r][LastCell(r)]), ExactThroughput(r), XPow2(-48))
C1_Witness ==
    \A r \in Kernels : Finished(r) /\ Bound(r, "totalCycles") /\ LastCell(r) \in DOMAIN out[r]

\* C2: on the documented parameters the six-month scenario ends at 118.16 TFLOPS and the
\* one-year scenario at 317.89 TFLOPS, each within 1%.
DocumentedThroughput(r) == IF r = "DR1" THEN XDec(11816, -2) ELSE XDec(31789, -2)
C2_DocumentedThroughput ==
    \A r \in Kernels :
        Finished(r) =>
            /\ out[r][LastCell(r)].unit = tflops
            /\ XWithin(XVal(out[r][LastCell(r)]), DocumentedThroughput(r), XDec(1, -2))
C2_Witness ==
    /\ Finished("DR1") /\ out["DR1"][LastCellDR1].unit = tflops
    /\ Finished("1Year") /\ out["1Year"][LastCell1Year].unit = tflops

\* C3: calcDiffimCycles returns timePerCcd x ccdCount x visitCount x clockRate.  With
\* 75.8 s, 189 CCDs, 137500 visits and 2.33e9 cycles/s that is 4.5898e18 cycles within
\* 0.1%; with 70 s, 189 CCDs, 275000 visits and 3.1e9 cycles/s it is 1.1279e19 cycles
\* within 0.1%.
DiffimProduct(r) ==
    IF r = "DR1"
    THEN XMul(XMul(XMul(XDec(758, -1), XInt(189)), XInt(137500)), XDec(233, 7))
    ELSE XMul(XMul(XMul(XInt(70), XInt(189)), XInt(275000)), XDec(31, 8))
DocumentedDiffim(r) == IF r = "DR1" THEN XDec(45898, 14) ELSE XDec(11279, 15)
C3_DiffimCycles ==
    \A r \in Kernels :
        Ran(r, DiffimCell) =>
            /\ ns[r].diffimCycles.unit = cycle
            /\ XWithin(XVal(ns[r].diffimCycles), DiffimProduct(r), XPow2(-50))
            /\ XWithin(XVal(ns[r].diffimCycles), DocumentedDiffim(r), XDec(1, -3))
            /\ out[r][DiffimCell] = ns[r].diffimCycles
C3_Witness ==
    /\ Ran("DR1", DiffimCell) /\ Bound("DR1", "diffimCycles")
    /\ Ran("1Year", DiffimCell) /\ Bound("1Year", "diffimCycles")

\* The coadd detection and measurement total as the specification gives it, from the
\* parameters in kernel r's namespace: detect and measure are the two measured times.
CoaddPerCcdTerm(env, sv, clock, detect, measure) ==
    XMul(XMul(XMul(XMul(XMul(XAdd(detect, measure), XVal(env.lsst.nCcds)), clock),
                   XVal(env.coaddParams.pixelDensityFactor)),
              XAdd(XVal(env.lsst.nFilters), XInt(1))),
         XVal(sv.nFields))
CoaddMergeTerm(env, sv, clock) ==
    XMul(XMul(XDiv(XMul(XMul(XAdd(XVal(env.lsst.nFilters), XInt(1)),
                             XAdd(XVal(env.lsst.nFilters), XInt(1))),
                        XDec(12798, -3)),
                   XMul(XInt(3), XInt(3))),
              clock),
         XVal(sv.nFields))
DetectTime(r) == IF r = "DR1" THEN XDec(619, -2) ELSE XVal(ns[r].detectTimePerCcd)
MeasureTime(r) == IF r = "DR1" THEN XDec(1050, -2) ELSE XVal(ns[r].measureTimePerCcd)
CoaddClock(r) == XVal(IF r = "DR1" THEN ns[r].abe.clockSpeed ELSE ns[r].lsst_dev.clockSpeed)
SpecifiedCoadd(r) ==
    XAdd(CoaddPerCcdTerm(ns[r], ns[r][SurveyName(r)], CoaddClock(r), DetectTime(r),
                         MeasureTime(r)),
         CoaddMergeTerm(ns[r], ns[r][SurveyName(r)], CoaddClock(r)))
\* the six-month notebook's total: no merge term, and the deblending factor
DeblendedCoadd(r) ==
    XMul(CoaddPerCcdTerm(ns[r], ns[r][SurveyName(r)], CoaddClock(r), DetectTime(r),
                         MeasureTime(r)),
         XAdd(XInt(1), XVal(ns[r].coaddParams.deblendFactor)))

\* C5 as stated: in both scenarios the stage total is the per-CCD term plus the merge term.
C5_CoaddFormulaEverywhere ==
    \A r \in Kernels :
        Ran(r, CoaddProcessCell(r)) =>
            XWithin(XVal(ns[r].coaddProcessCycles), SpecifiedCoadd(r), XPow2(-40))
\* C5, amended: in the one-year scenario the stage total is (detectTime + measureTime) x
\* ccdCount x clockRate x pixelDensityFactor x (filterCount+1) x fieldCount plus the merge
\* term (filterCount+1)^2 x 12.798 / 3^2 x clockRate x fieldCount, the merge term added
\* once per field and not multiplied by ccdCount or pixelDensityFactor.  In the six-month
\* scenario there is no merge term and the per-CCD term is multiplied by
\* (1 + deblendFactor).
C5_CoaddFormulaPerScenario ==
    /\ Ran("1Year", CoaddProcessCell("1Year")) =>
          /\ ns["1Year"].coaddProcessCycles.unit = cycle
          /\ XWithin(XVal(ns["1Year"].coaddProcessCycles), SpecifiedCoadd("1Year"), XPow2(-45))
          /\ XWithin(XVal(ns["1Year"].coaddMergeCycles),
                     CoaddMergeTerm(ns["1Year"], ns["1Year"].lsstWideAndFast1Year,
                                    CoaddClock("1Year")),
                     XPow2(-45))
    /\ Ran("DR1", CoaddProcessCell("DR1")) =>
          /\ ns["DR1"].coaddProcessCycles.unit = cycle
          /\ XWithin(XVal(ns["DR1"].coaddProcessCycles), DeblendedCoadd("DR1"), XPow2(-45))
C5_Witness ==
    /\ Ran("1Year", CoaddProcessCell("1Year")) /\ Bound("1Year", "coaddMergeCycles")
    /\ Ran("DR1", CoaddProcessCell("DR1")) /\ Bound("DR1", "coaddProcessCycles")

(* The multi-epoch stage on edited parameters. *)
SdqaCell(r) == MultiEpochCell(r) + 1
\* the time per object the multi-epoch cell of kernel r passes to the stage function
ObjectTime(r) == IF r = "DR1" THEN XDec(96, -3) ELSE XVal(ns[r].timePerObject)
\* forcedSourceCount - (starCount - outOfPlaneStarCount) x epochsPerObject
OutOfPlaneForcedSources(sv) ==
    XSub(XVal(sv.nForcedSources),
         XMul(XSub(XVal(sv.nStars), XVal(sv.nOutOfPlaneStars)), XVal(sv.nEpochs)))
MultiEpochProduct(r) ==
    XMul(XMul(OutOfPlaneForcedSources(ns[r][SurveyName(r)]), ObjectTime(r)),
         XVal(ns[r].lsst_dev.clockSpeed))

\* C4: for every survey record and computer, calcMultiEpochCycles returns
\* (forcedSourceCount - (starCount - outOfPlaneStarCount) x epochsPerObject) x
\* timePerObject x clockRate, in cycles: the in-plane estimate is subtracted from the
\* forced-source count before the scaling.  The float agrees with the exact product to
\* within rounding (2^-50).
C4_MultiEpochCycles ==
    \A r \in Kernels :
        Ran(r, MultiEpochCell(r)) =>
            /\ ns[r].multiEpochCycles.unit = cycle
            /\ XWithin(XVal(ns[r].multiEpochCycles), MultiEpochProduct(r), XPow2(-50))
C4_Witness ==
    \E r \in Kernels :
        /\ Bound(r, "edited") /\ Ran(r, MultiEpochCell(r))
        /\ ns[r].lsst_dev = tiger3
        /\ XSign(OutOfPlaneForcedSources(ns[r][SurveyName(r)])) = -1

\* C6: when forcedSourceCount - (starCount - outOfPlaneStarCount) x epochsPerObject is
\* negative the run fails with an error: no negative multi-epoch total is ever returned
\* or added into the grand total.
C6_NegativeCountRejected ==
    \A r \in Kernels :
        /\ Ran(r, MultiEpochCell(r)) => XSign(XVal(ns[r].multiEpochCycles)) >= 0
        /\ Ran(r, TotalsCell(r)) =>
              XSign(OutOfPlaneForcedSources(ns[r][SurveyName(r)])) >= 0

\* C7: constructing a Survey with outOfPlaneStarCount greater than starCount fails, so
\* the multi-epoch formula is never evaluated on a Survey with
\* outOfPlaneStarCount > starCount.
C7_InvalidSurveyRejected ==
    \A r \in Kernels :
        /\ Bound(r, SurveyName(r)) =>
              XLeq(XVal(ns[r][SurveyName(r)].nOutOfPlaneStars),
                   XVal(ns[r][SurveyName(r)].nStars))
        /\ Ran(r, MultiEpochCell(r)) =>
              XLeq(XVal(ns[r][SurveyName(r)].nOutOfPlaneStars),
                   XVal(ns[r][SurveyName(r)].nStars))

(* One parameter raised, the stage cells run again. *)
Raised(r) == Bound(r, "raised") /\ Ran(r, SdqaCell(r))
NotLower(r, s) == XLeq(XVal(ns[r].previous[s]), XVal(ns[r][s]))
NotHigher(r, s) == XLeq(XVal(ns[r][s]), XVal(ns[r].previous[s]))
\* the parameters the multi-epoch total falls with
SubtractedParameters == {"nStars", "nEpochs"}

\* C8 as stated: raising any one scale parameter never lowers a stage total.
C8_MonotoneEveryParameter ==
    \A r \in Kernels : Raised(r) => \A s \in StageTotals : NotLower(r, s)
\* C8, amended: raising any one scale parameter other than starCount and epochsPerObject
\* never lowers a stage total; raising starCount or epochsPerObject never raises the
\* multi-epoch total and lowers it when in-plane stars and epochs are positive, and
\* leaves the other five stage totals as they were.
C8_MonotoneButSubtracted ==
    \A r \in Kernels :
        Raised(r) =>
            /\ ns[r].raised.attr \notin SubtractedParameters =>
                  \A s \in StageTotals : NotLower(r, s)
            /\ ns[r].raised.attr \in SubtractedParameters =>
                  /\ NotHigher(r, "multiEpochCycles")
                  /\ ns[r].multiEpochCycles # ns[r].previous.multiEpochCycles
                  /\ \A s \in StageTotals \ {"multiEpochCycles"} : ns[r][s] = ns[r].previous[s]
C8_Witness ==
    \E r \in Kernels :
        /\ Raised(r) /\ ns[r].raised.attr = "nStars"
        /\ ~NotLower(r, "multiEpochCycles")

(* Unit arithmetic in the scratch cells. *)
\* C9 as stated: a quantity taken to cycles, then to FLOP, then back to cycles has the
\* magnitude it had in cycles.
C9_RoundTripExact ==
    Bound("DR1", "back") =>
        /\ ns["DR1"].back.unit = cycle
        /\ ns["DR1"].back.value = ns["DR1"].inCycles.value
\* C9, amended: for every positive magnitude, converting a quantity to cycles, then to
\* FLOP, then back to cycles with 1 cycle = 4 x 0.68 FLOP reproduces the magnitude it had
\* in cycles to within floating-point rounding (a relative error of at most 2^-51); the
\* magnitude in FLOP is 2.72 times the magnitude in cycles to within 2^-51.
C9_RoundTripWithinRounding ==
    /\ Bound("DR1", "inFlop") =>
          /\ ns["DR1"].inFlop.unit = flop
          /\ XWithin(XVal(ns["DR1"].inFlop), XMul(XVal(ns["DR1"].inCycles), FlopPerCycle),
                     XPow2(-51))
    /\ Bound("DR1", "back") =>
          /\ ns["DR1"].back.unit = cycle
          /\ XWithin(XVal(ns["DR1"].back), XVal(ns["DR1"].inCycles), XPow2(-51))
C9_Witness ==
    /\ Bound("DR1", "back")
    /\ ns["DR1"].x.unit = cycle
    /\ ns["DR1"].back.value # ns["DR1"].inCycles.value

\* the dimension of a value, a plain number being dimensionless
SameDimension(a, b) == Convertible(UnitOf(a), UnitOf(b))
PlainZero(a) == ~IsQuantity(a) /\ a.value.m = <<>>
\* the magnitude of a in irreducible units
InBaseUnits(a) == XMul(XVal(a), XOfFloat(UnitScale({UnitOf(a)})[UnitOf(a)]))
SameAmount(a, b) == SameDimension(a, b) /\ XWithin(InBaseUnits(a), InBaseUnits(b), XPow2(-50))
\* the scratch session stopped at a + b
AddFailed == err["DR1"] # NoError /\ Bound("DR1", "a") /\ ~Bound("DR1", "sum")

OtherDiffim(r) ==
    IF r = "DR1"
    THEN calcDiffimCycles1Year(hscCcdTime, ns[r].lsst, ns[r].lsstWideAndFastDR1, ns[r].abe)
    ELSE calcDiffimCycles(diffimCcdTime1Year, ns[r].lsst, ns[r].lsstWideAndFast1Year,
                          ns[r].lsst_dev)
OtherTemplate(r) ==
    IF r = "DR1"
    THEN calcTemplateCoadditionCycles1Year(hscCcdTime, ns[r].coaddParams, ns[r].templateParams,
                                           ns[r].lsst, ns[r].lsstWideAndFastDR1, ns[r].abe)
    ELSE calcTemplateCoadditionCycles(ns[r].coaddCcdTime, ns[r].coaddParams,
                                      ns[r].templateParams, ns[r].lsst,
                                      ns[r].lsstWideAndFast1Year, ns[r].tiger3)
OtherDeepCoadd(r) ==
    IF r = "DR1"
    THEN calcDeepCoadditionCycles1Year(hscCcdTime, ns[r].coaddParams, ns[r].lsst,
                                       ns[r].lsstWideAndFastDR1, ns[r].abe)
    ELSE calcDeepCoadditionCycles(ns[r].coaddCcdTime, ns[r].coaddParams, ns[r].lsst,
                                  ns[r].lsstWideAndFast1Year, ns[r].abe)
OtherMultiEpoch(r) ==
    IF r = "DR1"
    THEN calcMultiEpochCycles1Year(hscObjectTime, ns[r].lsstWideAndFastDR1, ns[r].lsst_dev)
    ELSE calcMultiEpochCycles(ns[r].timePerObject, ns[r].lsstWideAndFast1Year, ns[r].lsst_dev)
OtherSdqa(r) ==
    IF r = "DR1"
    THEN calcAlertSDQA1Year(sdqaVisitTime, ns[r].lsstWideAndFastDR1, ns[r].abe)
    ELSE calcAlertSDQA(sdqaVisitTime, ns[r].lsstWideAndFast1Year, ns[r].abe)
\* the six-month notebook's names bound as the one-year coadd cell reads them
AsOneYear(env) ==
    ("detectTimePerCcd" :> hscDetectTime) @@ ("measureTimePerCcd" :> hscMeasureTime)
        @@ ("mergeTime" :> mergeTime(env)) @@ ("lsst_dev" :> env.abe)
        @@ ("lsstWideAndFast1Year" :> env.lsstWideAndFastDR1) @@ env
OtherCoaddProcess(r) ==
    IF r = "DR1"
    THEN Add(coaddMergeCycles(AsOneYear(ns[r])), coaddSrcDetAndMeasCycles(AsOneYear(ns[r])))
    ELSE Add(calcCoaddProcessCycles(ns[r].detectTimePerCcd, ns[r].coaddParams, ns[r].lsst,
                                    ns[r].lsstWideAndFast1Year, ns[r].lsst_dev),
             calcCoaddProcessCycles(ns[r].measureTimePerCcd, ns[r].coaddParams, ns[r].lsst,
                                    ns[r].lsstWideAndFast1Year, ns[r].lsst_dev))
FiveStagesAgree(r) ==
    /\ OtherDiffim(r) = ns[r].diffimCycles
    /\ OtherTemplate(r) = ns[r].templateCycles
    /\ OtherDeepCoadd(r) = ns[r].deepCoaddCycles
    /\ OtherMultiEpoch(r) = ns[r].multiEpochCycles
    /\ OtherSdqa(r) = ns[r].sdqaCycles
\* the coadd processing total as each notebook's code gives it on kernel r's inputs
SixMonthCoadd(r) == IF r = "DR1" THEN ns[r].coaddProcessCycles ELSE OtherCoaddProcess(r)
OneYearCoadd(r) == IF r = "DR1" THEN OtherCoaddProcess(r) ELSE ns[r].coaddProcessCycles
OneYearMergeTerm(r) == CoaddMergeTerm(ns[r], ns[r][SurveyName(r)], CoaddClock(r))

\* C11 as stated: for each of the six stages the six-month and the one-year computation
\* give the same cycle total on the same measured times and parameter records.
C11_SameSixStages ==
    \A r \in Kernels :
        Ran(r, SdqaCell(r)) =>
            /\ FiveStagesAgree(r)
            /\ OtherCoaddProcess(r) = ns[r].coaddProcessCycles
\* C11, amended: for difference imaging, template coaddition, deep coaddition,
\* multi-epoch measurement and alert SDQA the two computations give the same cycle total
\* on the same measured times and parameter records.  For coadd processing they do not
\* share a formula: the six-month total is the one-year per-CCD term times
\* (1 + deblendFactor), and the one-year total is that per-CCD term plus the merge term.
C11_SameFiveStages ==
    \A r \in Kernels :
        Ran(r, SdqaCell(r)) =>
            /\ FiveStagesAgree(r)
            /\ SixMonthCoadd(r).unit = cycle /\ OneYearCoadd(r).unit = cycle
            /\ XWithin(XVal(OneYearCoadd(r)),
                       XAdd(XDiv(XVal(SixMonthCoadd(r)),
                                 XAdd(XInt(1), XVal(ns[r].coaddParams.deblendFactor))),
                            OneYearMergeTerm(r)),
                       XPow2(-45))
C11_Witness ==
    \E r \in Kernels :
        /\ Raised(r) /\ ns[r].raised.attr = "nFilters"
        /\ OtherCoaddProcess(r) # ns[r].coaddProcessCycles

(* How a run ends, and in what order its cells bind their names. *)
ParameterRecords(r) ==
    {"lsst", SurveyName(r), "abe", "lsst_dev", "tiger3", "coaddParams", "templateParams"}
Results == StageTotals \cup {"totalCycles", "totalFlop"}
\* the results of kernel r that can be read: the names bound, the cells with a value shown
ExposedNames(r) == {s \in Results : Bound(r, s)}
ExposedCells(r) == {k \in DOMAIN out[r] : k >= FirstStageCell}

\* C12: a run either succeeds and shows one final throughput, or fails with a dimension
\* (unit conversion) error and aborts; a failed run exposes no stage total, grand total
\* or throughput.
C12_AllOrNothing ==
    \A r \in Kernels :
        /\ Finished(r) => LastCell(r) \in DOMAIN out[r] /\ out[r][LastCell(r)].unit = tflops
        /\ Aborted(r) =>
              /\ err[r] = UnitConversionError
              /\ ExposedNames(r) = {} /\ ExposedCells(r) = {}

\* C13 as stated: the parameter records exist before any stage function runs, each stage
\* function is invoked exactly once per scenario, the sum is taken only after all six
\* stage totals exist, then converted, then scaled.
CellOrder(r) ==
    /\ (\E s \in StageTotals : Bound(r, s)) \/ calls[r] # NoCalls =>
          \A n \in ParameterRecords(r) : Bound(r, n)
    /\ Bound(r, "totalCycles") => \A s \in StageTotals : Bound(r, s)
    /\ Bound(r, "totalFlop") => Bound(r, "totalCycles")
    /\ LastCell(r) \in DOMAIN out[r] => Bound(r, "totalFlop")
C13_EachStageFunctionOnce ==
    \A r \in Kernels :
        /\ CellOrder(r)
        /\ \A fn \in StageFunctions : calls[r][fn] <= 1
        /\ Bound(r, "totalCycles") => \A fn \in StageFunctions : calls[r][fn] = 1
\* C13, amended: the parameter records exist before any stage function runs, the sum is
\* taken only after all six stage totals exist, then converted, then scaled; the stage
\* functions for difference imaging, template coaddition, deep coaddition, multi-epoch
\* measurement and alert SDQA are each invoked exactly once per scenario, while
\* calcCoaddProcessCycles is invoked twice in the six-month scenario (detection, then
\* measurement) and not at all in the one-year scenario, whose coadd processing total is
\* computed inline.
CoaddProcessCalls(r) == IF r = "DR1" THEN 2 ELSE 0
ExpectedCalls(r) ==
    [fn \in StageFunctions |-> IF fn = "calcCoaddProcessCycles" THEN CoaddProcessCalls(r) ELSE 1]
C13_OrderAndCallCounts ==
    \A r \in Kernels :
        /\ CellOrder(r)
        /\ \A fn \in StageFunctions : calls[r][fn] <= ExpectedCalls(r)[fn]
        /\ Bound(r, "totalCycles") => calls[r] = ExpectedCalls(r)
C13_Witness ==
    /\ Finished("DR1") /\ calls["DR1"]["calcCoaddProcessCycles"] = 2
    /\ Finished("1Year") /\ calls["1Year"]["calcCoaddProcessCycles"] = 0

\* C14: every stage total and the grand total is in cycles, the operands of every
\* addition of a scenario have one dimension (the detection and measurement totals, the
\* merge and detection/measurement totals, the warp and assembly times, the detection and
\* measurement times, the forced-photometry and multifit times), and no cell of either
\* documented scenario raises.
InCyclesIfBound(r, s) == Bound(r, s) => ns[r][s].unit = cycle
InSecondsIfBound(r, s) == Bound(r, s) => ns[r][s].unit = second
C14_StageTotalsAreCycles ==
    \A r \in Kernels :
        /\ err[r] = NoError
        /\ \A s \in StageTotals \cup {"totalCycles"} : InCyclesIfBound(r, s)
        /\ \A s \in {"coaddSrcDetCycles", "coaddSrcMeasCycles", "coaddMergeCycles",
                      "coaddSrcDetAndMeasCycles"} : InCyclesIfBound(r, s)
        /\ \A s \in {"makeTempExpTime", "assembleCoaddTime", "detectTimePerCcd",
                      "measureTimePerCcd", "timePerObject"} : InSecondsIfBound(r, s)
        /\ multifitTime.unit = second
C14_Witness ==
    /\ Finished("DR1") /\ Bound("DR1", "coaddSrcMeasCycles") /\ Bound("DR1", "totalCycles")
    /\ Finished("1Year") /\ Bound("1Year", "timePerObject") /\ Bound("1Year", "totalCycles")

\* C15: once constructed a parameter record is never changed: no cell, stage function or
\* total rebinds or mutates it.
C15_RecordsNeverMutated ==
    [][\A r \in Kernels : \A n \in ParameterRecords(r) :
           Bound(r, n) => n \in DOMAIN ns'[r] /\ ns'[r][n] = ns[r][n]]_vars
C15_Witness ==
    /\ Finished("DR1") /\ ns["DR1"].lsstWideAndFastDR1 = lsstWideAndFastDR1
    /\ Finished("1Year") /\ ns["1Year"].coaddParams = coaddParams

(* The values the notebooks recorded when each was run on its own. *)
\* float('<digits>e<k>'), the digits being hi * 10^9 + lo
ReprFloat(hi, lo, k) ==
    IF k >= 0
    THEN FRound(0, BMul(BAdd(BMul(BFromNat(hi), BPow10(9)), BFromNat(lo)), BPow10(k)), 0)
    ELSE FRatio(0, BAdd(BMul(BFromNat(hi), BPow10(9)), BFromNat(lo)), BPow10(-k), 0)
RecordedDR1 ==
    (7 :> Q(ReprFloat(45897563, 249999995, 2), cycle))
        @@ (8 :> Q(ReprFloat(782, 294758056, 7), cycle))
        @@ (9 :> Q(ReprFloat(18359025, 299999998, 3), cycle))
        @@ (10 :> Q(ReprFloat(14736, 887458524, 4), cycle))
        @@ (11 :> Q(ReprFloat(2053529, 76379699, 5), cycle))
        @@ (12 :> Q(ReprFloat(0, 192225, 12), cycle))
        @@ (13 :> Q(ReprFloat(6431827, 75532732, 5), flop))
        @@ (14 :> Q(ReprFloat(11816260, 794262075, -14), tflops))
Recorded1Year ==
    (7 :> Q(ReprFloat(0, 11278575, 12), cycle))
        @@ (8 :> Q(ReprFloat(7305666, 666666666, -15), second))
        @@ (9 :> Q(ReprFloat(9060729, 763679999, 2), cycle))
        @@ (10 :> Q(ReprFloat(3, 538916073, 9), cycle))
        @@ (11 :> Q(ReprFloat(132180, 807626448, 4), cycle))
        @@ (12 :> Q(ReprFloat(6187323, 711471183, 5), cycle))
        @@ (13 :> Q(ReprFloat(0, 38445, 13), cycle))
        @@ (14 :> Q(ReprFloat(17303611, 657018826, 5), flop))
        @@ (15 :> Q(ReprFloat(31789410, 10690085, -14), tflops))
Recorded(r) == IF r = "DR1" THEN RecordedDR1 ELSE Recorded1Year
\* the name each stage cell displays
StageOfCell(r, k) ==
    IF k = DiffimCell THEN "diffimCycles"
    ELSE IF k = CoaddProcessCell(r) - 2 THEN "templateCycles"
    ELSE IF k = CoaddProcessCell(r) - 1 THEN "deepCoaddCycles"
    ELSE IF k = CoaddProcessCell(r) THEN "coaddProcessCycles"
    ELSE IF k = MultiEpochCell(r) THEN "multiEpochCycles"
    ELSE IF k = SdqaCell(r) THEN "sdqaCycles"
    ELSE IF k = TotalsCell(r) THEN "totalFlop"
    ELSE "coaddCcdTime"

\* C16: the two notebooks' runs are independent: however their cells interleave, each
\* run shows the stage totals and the throughput it shows when run alone, which are the
\* values recorded in the notebook, and keeps them.
C16_SameAsAlone ==
    \A r \in Kernels :
        \A k \in DOMAIN Recorded(r) :
            Ran(r, k) =>
                /\ k \in DOMAIN out[r] /\ out[r][k] = Recorded(r)[k]
                /\ k < LastCell(r) => ns[r][StageOfCell(r, k)] = Recorded(r)[k]
C16_Witness ==
    /\ Finished("1Year") /\ Ran("DR1", CoaddProcessCell("DR1")) /\ ~Finished("DR1")
    /\ Bound("DR1", "lsst_dev") /\ Bound("1Year", "lsst_dev")

\* the shares of the coadd per-CCD term that detection and measurement account for
DetectionTerm(r) ==
    CoaddPerCcdTerm(ns[r], ns[r][SurveyName(r)], CoaddClock(r), DetectTime(r), XZero)
MeasurementTerm(r) ==
    CoaddPerCcdTerm(ns[r], ns[r][SurveyName(r)], CoaddClock(r), XZero, MeasureTime(r))
DeblendOverhead(r) == XAdd(XInt(1), XVal(ns[r].coaddParams.deblendFactor))

\* C17: the deblend factor is an extra cost of coadd source measurement only: the
\* measurement total is scaled by (1 + deblendFactor) and the detection total is not.
C17_DeblendOnMeasurementOnly ==
    /\ Ran("DR1", CoaddProcessCell("DR1")) =>
          /\ XWithin(XVal(ns["DR1"].coaddSrcDetCycles), DetectionTerm("DR1"), XPow2(-45))
          /\ XWithin(XVal(ns["DR1"].coaddSrcMeasCycles),
                     XMul(MeasurementTerm("DR1"), DeblendOverhead("DR1")), XPow2(-45))
    /\ Ran("1Year", CoaddProcessCell("1Year")) =>
          XWithin(XVal(ns["1Year"].coaddSrcDetAndMeasCycles),
                  XAdd(DetectionTerm("1Year"),
                       XMul(MeasurementTerm("1Year"), DeblendOverhead("1Year"))),
                  XPow2(-45))

\* a float that is a whole number
FIsWhole(x) == x.m = <<>> \/ x.e >= 0 \/ BShl(BShr(x.m, -x.e), -x.e) = x.m
CountAttributes ==
    {"nVisits", "nEpochs", "nFields", "nStars", "nOutOfPlaneStars", "nForcedSources"}
StarsInOrder(sv) == XLeq(XVal(sv.nOutOfPlaneStars), XVal(sv.nStars))
\* what the survey cell of kernel r divides the visits and the epochs by
SurveyDivisor(r) == IF r = "DR1" THEN 20 ELSE 10

\* C18 as stated: the counts of both Survey records are whole numbers, 2750000/20,
\* 2750000/10, 1056/20 and 1056/10 being exact divisions, and in both records
\* outOfPlaneStarCount <= starCount.
C18_WholeNumberCounts ==
    \A r \in Kernels :
        Bound(r, SurveyName(r)) =>
            /\ \A a \in CountAttributes : FIsWhole(ns[r][SurveyName(r)][a].value)
            /\ StarsInOrder(ns[r][SurveyName(r)])
\* C18, amended: in both Survey records visitCount (2750000/20 = 137500 and
\* 2750000/10 = 275000, exact divisions), fieldCount, starCount, outOfPlaneStarCount and
\* forcedSourceCount are whole numbers and outOfPlaneStarCount <= starCount;
\* epochsPerObject is not a whole number: 1056/20 = 52.8 and 1056/10 = 105.6, kept as
\* floats.
C18_WholeExceptEpochs ==
    \A r \in Kernels :
        Bound(r, SurveyName(r)) =>
            /\ \A a \in CountAttributes \ {"nEpochs"} :
                   FIsWhole(ns[r][SurveyName(r)][a].value)
            /\ XCmp(XMul(XVal(ns[r][SurveyName(r)].nVisits), XInt(SurveyDivisor(r))),
                    XInt(2750000)) = 0
            /\ ~FIsWhole(ns[r][SurveyName(r)].nEpochs.value)
            /\ XWithin(XVal(ns[r][SurveyName(r)].nEpochs),
                       XDiv(XInt(1056), XInt(SurveyDivisor(r))), XPow2(-52))
            /\ StarsInOrder(ns[r][SurveyName(r)])
C18_Witness ==
    /\ Bound("DR1", "lsstWideAndFastDR1") /\ Bound("1Year", "lsstWideAndFast1Year")
    /\ ~FIsWhole(ns["1Year"].lsstWideAndFast1Year.nEpochs.value)

\* the one-year coaddition totals at the clock of computer c
TemplateAt(env, c) ==
    XMul(XMul(XMul(XMul(XMul(XMul(XMul(XVal(env.coaddCcdTime), XVal(env.lsst.nCcds)),
                                  XVal(env.coaddParams.pixelDensityFactor)),
                             XVal(env.lsstWideAndFast1Year.nFields)),
                        XVal(env.templateParams.nTypes)),
                   XVal(env.templateParams.nVersions)),
              XVal(env.templateParams.depth)),
         XVal(c.clockSpeed))
DeepCoaddAt(env, c) ==
    XMul(XMul(XMul(XMul(XVal(env.coaddCcdTime), XVal(env.lsst.nCcds)), XVal(c.clockSpeed)),
              XVal(env.coaddParams.imageReuse)),
         XVal(env.lsstWideAndFast1Year.nVisits))

\* C19: in the one-year scenario every stage uses the clock rate of the computer its
\* time was measured on: difference imaging that of lsst-dev, and the per-CCD
\* coaddition time, measured on tiger3, that of tiger3 in template and in deep
\* coaddition.
C19_ClockOfMeasuringComputer ==
    /\ Ran("1Year", DiffimCell) =>
          XWithin(XVal(ns["1Year"].diffimCycles),
                  XMul(XMul(XMul(XInt(70), XVal(ns["1Year"].lsst.nCcds)),
                            XVal(ns["1Year"].lsstWideAndFast1Year.nVisits)),
                       XVal(ns["1Year"].lsst_dev.clockSpeed)),
                  XPow2(-48))
    /\ Ran("1Year", CoaddProcessCell("1Year") - 2) =>
          XWithin(XVal(ns["1Year"].templateCycles),
                  TemplateAt(ns["1Year"], ns["1Year"].tiger3), XPow2(-48))
    /\ Ran("1Year", CoaddProcessCell("1Year") - 1) =>
          XWithin(XVal(ns["1Year"].deepCoaddCycles),
                  DeepCoaddAt(ns["1Year"], ns["1Year"].tiger3), XPow2(-48))
====
